---- MODULE Spec2Model ----
(***************************************************************************)
(* accept-portal-dialog.py: a poll loop that finds Portal permission       *)
(* dialogs on GNOME or KDE and accepts them with synthetic key events sent *)
(* through ydotool.  The program is one thread; the desktop (lock state,   *)
(* windows, focus, the ydotoold socket) is the environment and may change  *)
(* between any two program steps.  A program step is one external call or  *)
(* one sleep together with the Python code around it.                      *)
(***************************************************************************)
EXTENDS Integers, Sequences, FiniteSets, TLC

\* ---------------------------------------------------------------- bounds
MaxWin == 1
MaxPolls == 2
MaxCalls == 3
MaxKeys == 3
MaxText == 4
MaxDepth == 3
MaxGapIndex == 4

\* ------------------------------------------------ configuration defaults
YDOTOOL_TAB_KEY == 15
YDOTOOL_ENTER_KEY == 28
YDOTOOL_LEFT_ALT_KEY == 56
YDOTOOL_S_KEY == 31
NumTitles == 2
MaxSteps == 10

\* Characters of a configuration value are key codes and the separator.
Comma == 0
\* The value "<sleep>".
SleepValue == <<-1>>
\* has_option is false for this index.
NoOption == <<-2>>

Titles == 1..NumTitles
WinIds == 1..MaxWin
KeyCodes == {YDOTOOL_TAB_KEY, YDOTOOL_ENTER_KEY, YDOTOOL_LEFT_ALT_KEY, YDOTOOL_S_KEY}

ALT_S_SEQUENCE == <<YDOTOOL_LEFT_ALT_KEY, Comma, YDOTOOL_S_KEY>>

\* config(), first run: the accept_sequence_<i> options of the two sections.
DefaultSequences ==
    [s \in {"gnome", "kde"} |->
        [i \in 0..(MaxSteps - 1) |->
            IF s = "kde"
            THEN IF i = 0 THEN <<YDOTOOL_ENTER_KEY>> ELSE NoOption
            ELSE CASE i = 0 -> <<YDOTOOL_ENTER_KEY>>
                   [] i = 1 -> SleepValue
                   [] i = 2 -> ALT_S_SEQUENCE
                   [] OTHER -> NoOption]]

\* ------------------------------------------------------- pure functions
Reverse(s) == [i \in 1..Len(s) |-> s[Len(s) + 1 - i]]

\* str.split(","): the pieces between separators, empty pieces included.
RECURSIVE SplitFrom(_, _, _)
SplitFrom(s, i, piece) ==
    IF i > Len(s) THEN <<piece>>
    ELSE IF s[i] = Comma THEN <<piece>> \o SplitFrom(s, i + 1, <<>>)
    ELSE SplitFrom(s, i + 1, Append(piece, s[i]))

Split(s) == SplitFrom(s, 1, <<>>)

\* f"{key}:1" and f"{key}:0"
KeyEvent(key, dir) == [key |-> key, dir |-> dir]

press_keys_up_in_listed_order(keys) ==
    [i \in 1..Len(keys) |-> KeyEvent(keys[i], 1)]
        \o [i \in 1..Len(keys) |-> KeyEvent(keys[i], 0)]

\* press_keys: the argument list of the one "ydotool key" invocation.
press_keys(keys) ==
    [i \in 1..Len(keys) |-> KeyEvent(keys[i], 1)]
        \o [i \in 1..Len(keys) |-> KeyEvent(Reverse(keys)[i], 0)]

\* run(): what the caller gets for each way the subprocess can end.
\* "missing" (FileNotFoundError) does not return: the callers exit(1).
RunOutcomes == {"ok", "err_text", "err_silent", "missing"}

run(outcome, stdout, stderr) ==
    CASE outcome = "ok" -> [out |-> stdout, isNone |-> FALSE, code |-> 0]
      [] outcome = "err_text" -> [out |-> stderr, isNone |-> FALSE, code |-> 1]
      [] OTHER -> [out |-> <<>>, isNone |-> TRUE, code |-> 1]

\* A line of error text on stderr, and the empty line.
ErrLine == -1
EmptyLine == 0

kde_search_window_keeps_empty_lines(r) ==
    IF ~r.isNone /\ r.out # <<>> THEN r.out ELSE <<>>

\* kde_search_window: the lines of `out`, whatever stream they came from.
kde_search_window(r) ==
    IF ~r.isNone /\ r.out # <<>>
    THEN SelectSeq(r.out, LAMBDA wid : wid # EmptyLine)
    ELSE <<>>

\* kde_get_active_window: out.strip() or None (None is modelled as EmptyLine).
kde_get_active_window(r) ==
    IF ~r.isNone /\ r.out # <<>> THEN r.out[1] ELSE EmptyLine

\* gnome_shell_eval: a reply is the tuple (ok, result), or the bare False the
\* function returns when gdbus is missing or exits non-zero.
EvalReply(ok, result) == [tuple |-> TRUE, ok |-> ok, result |-> result]
EvalFailed == [tuple |-> FALSE, ok |-> FALSE, result |-> <<>>]

\* gnome_check_shell_eval: unpacking a bare False raises, which is caught.
gnome_check_shell_eval(reply) ==
    IF ~reply.tuple THEN FALSE
    ELSE reply.ok /\ reply.result = <<2>>

\* All the orders in which the members of S can be listed.
RECURSIVE ListsOf(_)
ListsOf(S) ==
    IF S = {} THEN {<<>>}
    ELSE UNION {{<<x>> \o l : l \in ListsOf(S \ {x})} : x \in S}

\* XDG_CURRENT_DESKTOP as its colon-separated words; <<>> is unset or empty.
Desktops == {<<"ubuntu", "GNOME">>, <<"KDE">>, <<"XFCE">>, <<>>}

\* The words of a session signal that have another word inside them.
Inside == {<<"GNOME-Classic", "GNOME">>, <<"X-KDE", "KDE">>}

\* `"GNOME" in desktop`: substring containment, case-sensitive.
Contains(d, w) == \E i \in 1..Len(d) : d[i] = w \/ <<d[i], w>> \in Inside

\* More values of XDG_CURRENT_DESKTOP: both names, a name inside a longer
\* word, lower case, no name.
SessionSignals ==
    Desktops \cup {<<"KDE", "GNOME">>, <<"GNOME-Classic">>, <<"X-KDE">>,
                   <<"gnome">>, <<"kde">>}

\* accept_dialogs / is_desktop_locked: the dispatch on XDG_CURRENT_DESKTOP.
DesktopBranch(d) ==
    CASE Contains(d, "GNOME") -> "gnome"
      [] Contains(d, "KDE") -> "kde"
      [] d # <<>> -> "unsupported"
      [] OTHER -> "unset"

\* ------------------------------------------- JSON texts and json.loads
\* Characters of the texts handled by decode_eval_json.
Quote == "q"
Backslash == "b"
Alphabet == {"2", "a", "[", "]", "{", "}", Quote, Backslash}

\* Python values: a str is its characters; a number, list or object is
\* written as its JSON text; None stands for every other non-string value.
Str(cs) == [kind |-> "str", body |-> cs]
Num(cs) == [kind |-> "num", body |-> cs]
List(cs) == [kind |-> "list", body |-> cs]
Object(cs) == [kind |-> "object", body |-> cs]
None == [kind |-> "none", body |-> <<>>]

\* The characters of a JSON string literal's content: " and \ get a backslash.
RECURSIVE Escape(_)
Escape(cs) ==
    IF cs = <<>> THEN <<>>
    ELSE (IF Head(cs) \in {Quote, Backslash} THEN <<Backslash, Head(cs)>> ELSE <<Head(cs)>>)
            \o Escape(Tail(cs))

\* The content of a well-formed string literal with the escapes resolved.
RECURSIVE Unescape(_)
Unescape(cs) ==
    IF cs = <<>> THEN <<>>
    ELSE IF Head(cs) = Backslash THEN <<cs[2]>> \o Unescape(Tail(Tail(cs)))
    ELSE <<Head(cs)>> \o Unescape(Tail(cs))

\* json.dumps / JSON.stringify
json_dumps(v) ==
    IF v.kind = "str" THEN <<Quote>> \o Escape(v.body) \o <<Quote>> ELSE v.body

\* The JSON grammar over Alphabet: the index after the string literal whose
\* content starts at i, after the digits starting at i, after the value
\* starting at i; 0 when there is none.
RECURSIVE StringEnd(_, _)
StringEnd(cs, i) ==
    IF i > Len(cs) THEN 0
    ELSE IF cs[i] = Quote THEN i + 1
    ELSE IF cs[i] = Backslash
    THEN IF i + 1 <= Len(cs) /\ cs[i + 1] \in {Quote, Backslash}
         THEN StringEnd(cs, i + 2) ELSE 0
    ELSE StringEnd(cs, i + 1)

RECURSIVE DigitsEnd(_, _)
DigitsEnd(cs, i) ==
    IF i <= Len(cs) /\ cs[i] = "2" THEN DigitsEnd(cs, i + 1) ELSE i

RECURSIVE ValueEnd(_, _)
ValueEnd(cs, i) ==
    IF i > Len(cs) THEN 0
    ELSE CASE cs[i] = "2" -> DigitsEnd(cs, i)
           [] cs[i] = Quote -> StringEnd(cs, i + 1)
           [] cs[i] = "{" -> IF i + 1 <= Len(cs) /\ cs[i + 1] = "}" THEN i + 2 ELSE 0
           [] cs[i] = "[" ->
                IF i + 1 <= Len(cs) /\ cs[i + 1] = "]" THEN i + 2
                ELSE LET e == ValueEnd(cs, i + 1)
                     IN  IF e # 0 /\ e <= Len(cs) /\ cs[e] = "]" THEN e + 1 ELSE 0
           [] OTHER -> 0

\* json.loads(text): ok is false for json.JSONDecodeError.
json_loads(cs) ==
    IF cs = <<>> \/ ValueEnd(cs, 1) # Len(cs) + 1
    THEN [ok |-> FALSE, val |-> None]
    ELSE [ok |-> TRUE,
          val |-> CASE cs[1] = Quote -> Str(Unescape(SubSeq(cs, 2, Len(cs) - 1)))
                    [] cs[1] = "2" -> Num(cs)
                    [] cs[1] = "[" -> List(cs)
                    [] OTHER -> Object(cs)]

isinstance_str_never(o) == FALSE

\* Line 130: isinstance(obj, str)
isinstance_str(o) == o.kind = "str"

\* The value v given as JSON text, that text as JSON text, ... d times.
RECURSIVE Wrap(_, _)
Wrap(v, d) == IF d = 0 THEN v ELSE Str(json_dumps(Wrap(v, d - 1)))

\* Every text of at most MaxText characters.
Texts == UNION {[1..n -> Alphabet] : n \in 0..MaxText}

Structurals ==
    {Num(<<"2">>), List(<<"[", "]">>), List(<<"[", "2", "]">>),
     List(<<"[", Quote, "a", Quote, "]">>), Object(<<"{", "}">>)}

\* The arguments decode_eval_json is run on.
DecodeInputs ==
    {Str(cs) : cs \in Texts} \cup {Wrap(v, d) : v \in Structurals, d \in 0..MaxDepth} \cup {None}

is_desktop_locked_else_kde(d) ==
    CASE Contains(d, "GNOME") -> "is_gnome_screen_locked"
      [] OTHER -> "is_kde_screen_locked"

\* is_desktop_locked, lines 407-416: where the dispatch leads.
is_desktop_locked(d) ==
    CASE Contains(d, "GNOME") -> "is_gnome_screen_locked"
      [] Contains(d, "KDE") -> "is_kde_screen_locked"
      [] d # <<>> -> "raise_unsupported"
      [] OTHER -> "raise_unset"

\* ---------------------------------------------------------------- state
VARIABLES
    pc,          \* where the program is
    caller,      \* "main" for the program, "test" for repeated ensure calls
    desktop,     \* XDG_CURRENT_DESKTOP
    sequences,   \* accept_sequence_<i> of each section of _config
    locked,      \* environment: the session is locked
    sock,        \* environment: the ydotoold socket exists
    windows,     \* environment: window id -> configured titles it contains
    focus,       \* environment: the focused window, 0 when none of WinIds
    exitCode,    \* -1 while running
    error,       \* what ended the process
    calls,       \* ensure_ydotoold calls started
    launches,    \* daemon launches, all calls
    callSock,    \* this call: what sock_path.exists() gave at line 212
    callProbe,   \* this call: how "ydotool debug" ended
    callLaunches,\* this call: daemon launches
    callPolls,   \* this call: one-second waits for the socket
    ti,          \* index of the title being handled
    found,       \* KDE: the window ids of the current search
    wi,          \* KDE: index into found
    cur,         \* the window being acted on
    step,        \* index i of press_key_sequence
    events,      \* this tick: arguments of the last "ydotool key" invocation
    tickLock,    \* this tick: result of the lock check
    tickDisc,    \* this tick: discovery calls
    tickEmpty,   \* this tick: discovery calls answered with no window
    tickAct,     \* this tick: activation calls
    tickSettle,  \* this tick: settle delays
    tickPlays,   \* this tick: completed plays of the key sequence
    tickInj,     \* this tick: injector invocations
    playInjFail, \* this play: an injector invocation exited non-zero
    actFailed,   \* this window: the activation call exited non-zero
    decodeIn,    \* decode_eval_json: the argument s
    obj,         \* decode_eval_json: the local obj
    parses       \* decode_eval_json: json.loads calls that replaced obj

envVars == <<locked, sock, windows, focus>>
cfgVars == <<caller, desktop, sequences>>
decodeVars == <<decodeIn, obj, parses>>
ensureVars == <<calls, launches, callSock, callProbe, callLaunches, callPolls>>
walkVars == <<ti, found, wi, cur, step>>
tickVars == <<tickLock, tickDisc, tickEmpty, tickAct, tickSettle, tickPlays, tickInj>>
vars == <<pc, exitCode, error, events, playInjFail, actFailed, envVars, cfgVars, decodeVars, ensureVars, walkVars, tickVars>>

Terminal == {"stopped", "exited", "crashed", "done"}
Running == pc \notin Terminal

InitCommon ==
    /\ pc = "ensure"
    /\ sequences = DefaultSequences
    /\ locked \in BOOLEAN
    /\ sock \in BOOLEAN
    /\ windows = [w \in WinIds |-> {}]
    /\ focus = 0
    /\ exitCode = -1
    /\ error = "none"
    /\ calls = 0
    /\ launches = 0
    /\ callSock = "none"
    /\ callProbe = "none"
    /\ callLaunches = 0
    /\ callPolls = 0
    /\ ti = 0
    /\ found = <<>>
    /\ wi = 0
    /\ cur = 0
    /\ step = 0
    /\ events = <<>>
    /\ tickLock = "none"
    /\ tickDisc = 0
    /\ tickEmpty = 0
    /\ tickAct = 0
    /\ tickSettle = 0
    /\ tickPlays = 0
    /\ tickInj = 0
    /\ playInjFail = FALSE
    /\ actFailed = FALSE
    /\ decodeIn = None
    /\ obj = None
    /\ parses = 0

\* main() after config(): about to call ensure_ydotoold.
Init ==
    /\ InitCommon
    /\ caller = "main"
    /\ desktop \in Desktops

\* ------------------------------------------------------ process endings
ExitWithStatusZero(why) ==
    /\ pc' = "exited"
    /\ exitCode' = 0
    /\ error' = why

\* exit(1)
Exit(why) ==
    /\ pc' = "exited"
    /\ exitCode' = 1
    /\ error' = why

\* An exception other than KeyboardInterrupt leaves main(): traceback, status 1.
Crash(why) ==
    /\ pc' = "crashed"
    /\ exitCode' = 1
    /\ error' = why

Continue(next) ==
    /\ pc' = next
    /\ UNCHANGED <<exitCode, error>>

\* ------------------------------------------------------ ensure_ydotoold
SocketBranch(exists) == IF exists THEN "probe" ELSE "launch"

\* Lines 210-213, 220: sock_path.exists().
EnsureCheckSocket ==
    /\ pc = "ensure"
    /\ calls' = calls + 1
    /\ callSock' = IF sock THEN "present" ELSE "absent"
    /\ callProbe' = "none"
    /\ callLaunches' = 0
    /\ callPolls' = 0
    /\ Continue(SocketBranch(sock))
    /\ UNCHANGED <<launches, events, playInjFail, actFailed, envVars, cfgVars, decodeVars, walkVars, tickVars>>

AfterProbeFallsThrough(code) == IF code # 0 THEN "raise" ELSE "launch"

\* Lines 215-218.
AfterProbe(code) == IF code # 0 THEN "raise" ELSE "return"

\* Lines 214-218: run("ydotool", "debug").
EnsureProbe ==
    /\ pc = "probe"
    /\ \E o \in RunOutcomes :
        /\ callProbe' = o
        /\ IF o = "missing" THEN Exit("CommandNotFound")
           ELSE LET r == run(o, <<>>, <<ErrLine>>)
                    nxt == AfterProbe(r.code)
                IN  IF nxt = "raise" THEN Crash("InjectorUnhealthy")
                    ELSE Continue(IF nxt = "return" THEN "ensured" ELSE nxt)
    /\ UNCHANGED <<calls, launches, callSock, callLaunches, callPolls,
                   events, playInjFail, actFailed, envVars, cfgVars, decodeVars, walkVars, tickVars>>

\* Lines 221-236: subprocess.run(["sudo", "-b", "ydotoold", ...], check=True).
EnsureLaunch ==
    /\ pc = "launch"
    /\ launches' = launches + 1
    /\ callLaunches' = callLaunches + 1
    /\ \E o \in {"ok", "failed", "missing"} :
        CASE o = "ok" -> Continue("poll")
          [] o = "failed" -> Exit("DaemonLaunchFailed")
          [] OTHER -> Crash("SudoNotFound")
    /\ UNCHANGED <<calls, callSock, callProbe, callPolls,
                   events, playInjFail, actFailed, envVars, cfgVars, decodeVars, walkVars, tickVars>>

PollBranchReturnsAtOnce(exists) == "ensured"

PollBranch(exists) == IF exists THEN "ensured" ELSE "poll"

\* Lines 238-240: while not sock_path.exists(): sleep(1).
EnsurePoll ==
    /\ pc = "poll"
    /\ Continue(PollBranch(sock))
    /\ callPolls' = IF sock \/ callPolls = MaxPolls THEN callPolls ELSE callPolls + 1
    /\ UNCHANGED <<calls, launches, callSock, callProbe, callLaunches,
                   events, playInjFail, actFailed, envVars, cfgVars, decodeVars, walkVars, tickVars>>

\* Line 430, after ensure_ydotoold returned to main(); the call's frame is gone.
StartWatching ==
    /\ pc = "ensured"
    /\ caller = "main"
    /\ Continue("lock")
    /\ callSock' = "none"
    /\ callProbe' = "none"
    /\ callLaunches' = 0
    /\ callPolls' = 0
    /\ UNCHANGED <<calls, launches, events, playInjFail, actFailed, envVars, cfgVars, decodeVars, walkVars, tickVars>>

\* ensure_ydotoold called again by a caller other than main().
NextCall ==
    /\ pc = "ensured"
    /\ caller = "test"
    /\ Continue(IF calls < MaxCalls THEN "ensure" ELSE "done")
    /\ callSock' = "none"
    /\ callProbe' = "none"
    /\ callLaunches' = 0
    /\ callPolls' = 0
    /\ UNCHANGED <<calls, launches, events, playInjFail, actFailed, envVars, cfgVars, decodeVars, walkVars, tickVars>>

\* ------------------------------------------------------------ the tick
\* accept_dialogs, lines 243-252: where the dispatch leads.
accept_dialogs(d) ==
    CASE DesktopBranch(d) = "gnome" -> "gcheck"
      [] DesktopBranch(d) = "kde" -> "ksearch"
      [] DesktopBranch(d) = "unsupported" -> "raise_unsupported"
      [] OTHER -> "raise_unset"

LockedBranchIgnoresLock(isLocked, d) == accept_dialogs(d)

\* Lines 432-437: `if not is_desktop_locked(): accept_dialogs()`, else the wait.
LockedBranch(isLocked, d) == IF isLocked THEN "wait" ELSE accept_dialogs(d)

Section == DesktopBranch(desktop)

\* Lines 432-433 with 407-416, 366-404 and the dispatch of 243-252: one lock
\* query, answered with the lock state of that moment or failing.
LockCheck ==
    /\ pc = "lock"
    /\ CASE is_desktop_locked(desktop) = "raise_unsupported" ->
              /\ tickLock' = "error"
              /\ Crash("UnsupportedDesktop")
              /\ ti' = ti
         [] is_desktop_locked(desktop) = "raise_unset" ->
              /\ tickLock' = "error"
              /\ Crash("DesktopUnset")
              /\ ti' = ti
         [] OTHER ->
              \E answered \in BOOLEAN :
                  IF ~answered
                  THEN /\ tickLock' = "error"
                       /\ Crash("LockCheckFailed")
                       /\ ti' = ti
                  ELSE LET nxt == LockedBranch(locked, desktop)
                       IN  /\ tickLock' = IF locked THEN "locked" ELSE "unlocked"
                           /\ ti' = IF nxt \in {"gcheck", "ksearch"} THEN 1 ELSE ti
                           /\ CASE nxt = "raise_unsupported" -> Crash("UnsupportedDesktop")
                                [] nxt = "raise_unset" -> Crash("DesktopUnset")
                                [] OTHER -> Continue(nxt)
    /\ UNCHANGED <<events, playInjFail, actFailed, envVars, cfgVars, decodeVars, ensureVars, found, wi, cur, step,
                   tickDisc, tickEmpty, tickAct, tickSettle, tickPlays, tickInj>>

\* Line 437: time.sleep(check_interval); the next tick starts with nothing kept.
Wait ==
    /\ pc = "wait"
    /\ Continue("lock")
    /\ tickLock' = "none"
    /\ tickDisc' = 0
    /\ tickEmpty' = 0
    /\ tickAct' = 0
    /\ tickSettle' = 0
    /\ tickPlays' = 0
    /\ tickInj' = 0
    /\ playInjFail' = FALSE
    /\ actFailed' = FALSE
    /\ events' = <<>>
    /\ UNCHANGED <<envVars, cfgVars, decodeVars, ensureVars, walkVars>>

\* The open windows whose title contains configured title t.
Matching(t) == {w \in WinIds : t \in windows[w]}

\* The `for title in ...split(",")` loops of lines 72 and 164: the next title,
\* or the return to main() at the end of the list (the locals are gone).
NextTitle(discoverPc) ==
    IF ti < NumTitles
    THEN /\ ti' = ti + 1
         /\ Continue(discoverPc)
         /\ UNCHANGED <<found, wi, cur, step>>
    ELSE /\ ti' = 0
         /\ found' = <<>>
         /\ wi' = 0
         /\ cur' = 0
         /\ step' = 0
         /\ Continue("wait")

\* ------------------------------------------------------------- GNOME
\* Lines 155-162: gnome_check_shell_eval() on the reply to "1+1".
GnomeCheckShellEval ==
    /\ pc = "gcheck"
    /\ \E reply \in {EvalReply(TRUE, <<2>>), EvalReply(TRUE, <<>>),
                     EvalReply(FALSE, <<>>), EvalFailed} :
        IF gnome_check_shell_eval(reply)
        THEN Continue("gdisc")
        ELSE Crash("EvalDisabled")
    /\ UNCHANGED <<events, playInjFail, actFailed, envVars, cfgVars, decodeVars, ensureVars, walkVars, tickVars>>

\* The windows of a discovery reply as the records the script builds.
WindowRecords(list) == [i \in 1..Len(list) |-> [id |-> list[i], focus |-> focus = list[i]]]

\* Lines 179-183: `if not ok or not result: continue`.
GnomeSkips(reply) == ~reply.ok \/ reply.result = <<>>

\* Lines 164-195: one discovery eval for title ti and what follows up to the
\* activation call or the settle delay.
GnomeDiscover ==
    /\ pc = "gdisc"
    /\ tickDisc' = tickDisc + 1
    /\ \E reply \in {EvalFailed, EvalReply(FALSE, <<>>)}
                    \cup {EvalReply(TRUE, WindowRecords(l)) : l \in ListsOf(Matching(ti))} :
        IF ~reply.tuple
        THEN /\ Crash("DiscoverUnpackTypeError")
             /\ UNCHANGED <<ti, found, wi, cur, step, tickEmpty>>
        ELSE IF GnomeSkips(reply)
        THEN /\ NextTitle("gdisc")
             /\ tickEmpty' = IF reply.ok THEN tickEmpty + 1 ELSE tickEmpty
        ELSE LET window == reply.result[1]
             IN  /\ cur' = window.id
                 /\ Continue(IF window.focus THEN "settle" ELSE "gact")
                 /\ UNCHANGED <<ti, found, wi, step, tickEmpty>>
    /\ UNCHANGED <<events, playInjFail, actFailed, envVars, cfgVars, decodeVars, ensureVars,
                   tickLock, tickAct, tickSettle, tickPlays, tickInj>>

\* What an activation does to the desktop.
Activated(w) == IF w \in WinIds /\ windows[w] # {} THEN w ELSE focus

\* Lines 141-151: gnome_activate_window(id).
GnomeActivate ==
    /\ pc = "gact"
    /\ tickAct' = tickAct + 1
    /\ \E reply \in {EvalFailed, EvalReply(FALSE, <<>>), EvalReply(TRUE, <<>>)} :
        IF ~reply.tuple
        THEN /\ Crash("ActivateUnpackTypeError")
             /\ focus' = focus
        ELSE IF ~reply.ok
        THEN /\ Crash("ActivateFailed")
             /\ focus' = focus
        ELSE /\ Continue("settle")
             /\ focus' = Activated(cur)
    /\ UNCHANGED <<events, playInjFail, actFailed, locked, sock, windows, cfgVars, decodeVars, ensureVars, walkVars,
                   tickLock, tickDisc, tickEmpty, tickSettle, tickPlays, tickInj>>

\* ----------------------------------------------- settle delay and play
\* Lines 203-206: sleep_before_sequence().
SleepBeforeSequence ==
    /\ pc = "settle"
    /\ tickSettle' = tickSettle + 1
    /\ step' = 0
    /\ Continue("play")
    /\ UNCHANGED <<events, playInjFail, actFailed, envVars, cfgVars, decodeVars, ensureVars, ti, found, wi, cur,
                   tickLock, tickDisc, tickEmpty, tickAct, tickPlays, tickInj>>

SequenceEndsAfterLastIndex(section, i) == i >= MaxSteps

\* Lines 29-32: the loop of press_key_sequence ends at index i.
SequenceEnds(section, i) ==
    IF i >= MaxSteps THEN TRUE ELSE sequences[section][i] = NoOption

\* After press_key_sequence returned: lines 164 and 200 (GNOME goes on with the
\* next title), lines 73 and 79 (KDE goes on with the next window found).
AfterPlay ==
    IF Section = "gnome"
    THEN NextTitle("gdisc")
    ELSE IF wi < Len(found)
    THEN /\ wi' = wi + 1
         /\ cur' = found[wi + 1]
         /\ Continue("kfocus")
         /\ UNCHANGED <<ti, found, step>>
    ELSE NextTitle("ksearch")

\* Lines 29-32: no option accept_sequence_<step>, press_key_sequence returns.
PlayEnd ==
    /\ pc = "play"
    /\ SequenceEnds(Section, step)
    /\ tickPlays' = tickPlays + 1
    /\ playInjFail' = FALSE
    /\ actFailed' = FALSE
    /\ AfterPlay
    /\ UNCHANGED <<events, envVars, cfgVars, decodeVars, ensureVars,
                   tickLock, tickDisc, tickEmpty, tickAct, tickSettle, tickInj>>

\* Lines 36-41: a "<sleep>" step.
PlaySleep ==
    /\ pc = "play"
    /\ ~SequenceEnds(Section, step)
    /\ sequences[Section][step] = SleepValue
    /\ step' = step + 1
    /\ Continue("play")
    /\ UNCHANGED <<events, playInjFail, actFailed, envVars, cfgVars, decodeVars, ensureVars, ti, found, wi, cur, tickVars>>

press_keys_raises_on_error(code) == IF code # 0 THEN "raise" ELSE "return"

\* Line 61: press_keys drops what run() returns.
press_keys_returns(code) == "return"

\* Lines 43-44 and 57-61: press_keys(*sequence.split(",")), one "ydotool key"
\* run; a non-zero exit is logged by run() and ignored.
PlayKeys ==
    /\ pc = "play"
    /\ ~SequenceEnds(Section, step)
    /\ sequences[Section][step] # SleepValue
    /\ \E o \in RunOutcomes :
        IF o = "missing"
        THEN /\ Exit("CommandNotFound")
             /\ UNCHANGED <<events, playInjFail, actFailed, step, tickInj>>
        ELSE LET r == run(o, <<>>, <<ErrLine>>)
             IN  /\ events' = press_keys(Split(sequences[Section][step]))
                 /\ tickInj' = tickInj + 1
                 /\ playInjFail' = (playInjFail \/ r.code # 0)
                 /\ actFailed' = actFailed
                 /\ IF press_keys_returns(r.code) = "raise"
                    THEN /\ Crash("InjectorFailed")
                         /\ step' = step
                    ELSE /\ step' = step + 1
                         /\ Continue("play")
    /\ UNCHANGED <<envVars, cfgVars, decodeVars, ensureVars, ti, found, wi, cur,
                   tickLock, tickDisc, tickEmpty, tickAct, tickSettle, tickPlays>>

\* --------------------------------------------------------------- KDE
\* Lines 72-73 and 47-49: run("kdotool", "search", "--name", title).
KdeSearch ==
    /\ pc = "ksearch"
    /\ tickDisc' = tickDisc + 1
    /\ \E o \in RunOutcomes, l \in ListsOf(Matching(ti)), tail \in {<<>>, <<EmptyLine>>} :
        IF o = "missing"
        THEN /\ Exit("CommandNotFound")
             /\ UNCHANGED <<ti, found, wi, cur, step, tickEmpty>>
        ELSE LET r == run(o, l \o tail, <<ErrLine>>)
                 ids == kde_search_window(r)
             IN  /\ tickEmpty' = IF o = "ok" /\ l = <<>> THEN tickEmpty + 1 ELSE tickEmpty
                 /\ IF ids = <<>>
                    THEN NextTitle("ksearch")
                    ELSE /\ found' = ids
                         /\ wi' = 1
                         /\ cur' = ids[1]
                         /\ Continue("kfocus")
                         /\ UNCHANGED <<ti, step>>
    /\ UNCHANGED <<events, playInjFail, actFailed, envVars, cfgVars, decodeVars, ensureVars,
                   tickLock, tickAct, tickSettle, tickPlays, tickInj>>

\* Lines 64-66 and 52-54: run("kdotool", "getactivewindow") and the comparison.
KdeGetActive ==
    /\ pc = "kfocus"
    /\ \E o \in RunOutcomes :
        IF o = "missing"
        THEN Exit("CommandNotFound")
        ELSE LET r == run(o, <<focus>>, <<ErrLine>>)
                 active_window == kde_get_active_window(r)
             IN  Continue(IF active_window # cur THEN "kact" ELSE "settle")
    /\ UNCHANGED <<events, playInjFail, actFailed, envVars, cfgVars, decodeVars, ensureVars, walkVars, tickVars>>

\* Lines 67-68: run("kdotool", "windowactivate", window_id).
KdeActivate ==
    /\ pc = "kact"
    /\ \E o \in RunOutcomes :
        IF o = "missing"
        THEN /\ Exit("CommandNotFound")
             /\ UNCHANGED <<focus, tickAct, actFailed>>
        ELSE /\ tickAct' = tickAct + 1
             /\ focus' = IF run(o, <<>>, <<ErrLine>>).code = 0 THEN Activated(cur) ELSE focus
             /\ actFailed' = (run(o, <<>>, <<ErrLine>>).code # 0)
             /\ Continue("settle")
    /\ UNCHANGED <<events, playInjFail, locked, sock, windows, cfgVars, decodeVars, ensureVars, walkVars,
                   tickLock, tickDisc, tickEmpty, tickSettle, tickPlays, tickInj>>

\* ------------------------------------------------------------ interrupt
InterruptCaughtInShellEvalCheck ==
    /\ Running
    /\ caller = "main"
    /\ IF pc = "gcheck"
       THEN /\ Crash("EvalDisabled")
            /\ UNCHANGED <<events, playInjFail, actFailed, walkVars, tickVars>>
       ELSE /\ pc' = "stopped"
            /\ exitCode' = 0
            /\ error' = "KeyboardInterrupt"
            /\ ti' = 0
            /\ found' = <<>>
            /\ wi' = 0
            /\ cur' = 0
            /\ step' = 0
            /\ tickLock' = "none"
            /\ tickDisc' = 0
            /\ tickEmpty' = 0
            /\ tickAct' = 0
            /\ tickSettle' = 0
            /\ tickPlays' = 0
            /\ tickInj' = 0
            /\ playInjFail' = FALSE
            /\ actFailed' = FALSE
            /\ events' = <<>>
    /\ UNCHANGED <<envVars, cfgVars, decodeVars, ensureVars>>

\* Lines 438-439: KeyboardInterrupt anywhere inside the try block; the stack
\* is unwound and the tick in progress is over.
Interrupt ==
    /\ Running
    /\ caller = "main"
    /\ pc' = "stopped"
    /\ exitCode' = 0
    /\ error' = "KeyboardInterrupt"
    /\ ti' = 0
    /\ found' = <<>>
    /\ wi' = 0
    /\ cur' = 0
    /\ step' = 0
    /\ tickLock' = "none"
    /\ tickDisc' = 0
    /\ tickEmpty' = 0
    /\ tickAct' = 0
    /\ tickSettle' = 0
    /\ tickPlays' = 0
    /\ tickInj' = 0
    /\ playInjFail' = FALSE
    /\ actFailed' = FALSE
    /\ events' = <<>>
    /\ UNCHANGED <<envVars, cfgVars, decodeVars, ensureVars>>

\* ---------------------------------------------------------- environment
\* The socket is read by ensure_ydotoold only, and not again once a call has
\* found it (line 212); lock state, windows and focus are read by the ticks
\* only.
InEnsure == pc \in {"ensure", "probe", "launch", "poll"}
InLoop == Running /\ ~InEnsure /\ pc # "ensured" /\ Section \in {"gnome", "kde"}

ProgVars == <<pc, exitCode, error, events, playInjFail, actFailed, cfgVars, decodeVars, ensureVars, walkVars, tickVars>>

Lock ==
    /\ InLoop
    /\ ~locked
    /\ locked' = TRUE
    /\ UNCHANGED <<ProgVars, sock, windows, focus>>

Unlock ==
    /\ InLoop
    /\ locked
    /\ locked' = FALSE
    /\ UNCHANGED <<ProgVars, sock, windows, focus>>

SocketAppears ==
    /\ InEnsure
    /\ pc # "probe"
    /\ ~sock
    /\ sock' = TRUE
    /\ UNCHANGED <<ProgVars, locked, windows, focus>>

SocketRemoved ==
    /\ InEnsure
    /\ pc # "probe"
    /\ sock
    /\ sock' = FALSE
    /\ UNCHANGED <<ProgVars, locked, windows, focus>>

WindowOpens ==
    /\ InLoop
    /\ \E w \in WinIds, m \in (SUBSET Titles) \ {{}} :
        /\ windows[w] = {}
        /\ windows' = [windows EXCEPT ![w] = m]
    /\ UNCHANGED <<ProgVars, locked, sock, focus>>

WindowCloses ==
    /\ InLoop
    /\ \E w \in WinIds :
        /\ windows[w] # {}
        /\ windows' = [windows EXCEPT ![w] = {}]
        /\ focus' = IF focus = w THEN 0 ELSE focus
    /\ UNCHANGED <<ProgVars, locked, sock>>

FocusMoves ==
    /\ InLoop
    /\ \E f \in {0} \cup {w \in WinIds : windows[w] # {}} :
        /\ f # focus
        /\ focus' = f
    /\ UNCHANGED <<ProgVars, locked, sock, windows>>

Environment ==
    \/ Lock
    \/ Unlock
    \/ SocketAppears
    \/ SocketRemoved
    \/ WindowOpens
    \/ WindowCloses
    \/ FocusMoves

Program ==
    \/ EnsureCheckSocket
    \/ EnsureProbe
    \/ EnsureLaunch
    \/ EnsurePoll
    \/ StartWatching
    \/ LockCheck
    \/ Wait
    \/ GnomeCheckShellEval
    \/ GnomeDiscover
    \/ GnomeActivate
    \/ SleepBeforeSequence
    \/ PlayEnd
    \/ PlaySleep
    \/ PlayKeys
    \/ KdeSearch
    \/ KdeGetActive
    \/ KdeActivate

Next == Program \/ Interrupt \/ Environment

Spec == Init /\ [][Next]_vars

\* The program is a running process: a step it can take is taken.
SpecFair == Init /\ [][Next]_vars /\ WF_vars(Program)

\* main() under every session signal.
InitDesktop ==
    /\ InitCommon
    /\ caller = "main"
    /\ desktop \in SessionSignals

SpecDesktop == InitDesktop /\ [][Next]_vars

\* ------------------------------------- ensure_ydotoold called repeatedly
InitEnsure ==
    /\ InitCommon
    /\ caller = "test"
    /\ desktop = <<>>

NextEnsure ==
    \/ EnsureCheckSocket
    \/ EnsureProbe
    \/ EnsureLaunch
    \/ EnsurePoll
    \/ NextCall
    \/ SocketAppears
    \/ SocketRemoved

SpecEnsure == InitEnsure /\ [][NextEnsure]_vars

\* --------------------------------- press_keys on arbitrary key lists
\* Key lists of 1..MaxKeys codes, and the option value that lists them.
KeyLists == UNION {[1..n -> KeyCodes] : n \in 1..MaxKeys}

RECURSIVE JoinKeys(_)
JoinKeys(ks) ==
    IF Len(ks) = 1 THEN <<ks[1]>>
    ELSE <<ks[1], Comma>> \o JoinKeys(Tail(ks))

\* A GNOME tick that found the focused window 1 for the last title and has
\* slept the settle delay; accept_sequence_0 is the only step and lists ks.
InitPress ==
    /\ pc = "play"
    /\ caller = "main"
    /\ desktop = <<"ubuntu", "GNOME">>
    /\ \E ks \in KeyLists :
        sequences = [DefaultSequences EXCEPT
                        !["gnome"] = [i \in 0..(MaxSteps - 1) |->
                                         IF i = 0 THEN JoinKeys(ks) ELSE NoOption]]
    /\ locked = FALSE
    /\ sock = TRUE
    /\ windows = [w \in WinIds |-> IF w = 1 THEN {NumTitles} ELSE {}]
    /\ focus = 1
    /\ exitCode = -1
    /\ error = "none"
    /\ calls = 1
    /\ launches = 0
    /\ callSock = "none"
    /\ callProbe = "none"
    /\ callLaunches = 0
    /\ callPolls = 0
    /\ ti = NumTitles
    /\ found = <<>>
    /\ wi = 0
    /\ cur = 1
    /\ step = 0
    /\ events = <<>>
    /\ tickLock = "unlocked"
    /\ tickDisc = NumTitles
    /\ tickEmpty = NumTitles - 1
    /\ tickAct = 0
    /\ tickSettle = 1
    /\ tickPlays = 0
    /\ tickInj = 0
    /\ playInjFail = FALSE
    /\ actFailed = FALSE
    /\ decodeIn = None
    /\ obj = None
    /\ parses = 0

NextPress == PlayKeys \/ PlayEnd

SpecPress == InitPress /\ [][NextPress]_vars

\* ------------------------------- press_key_sequence on any section
\* The accept_sequence_<i> options of a section: each index has a key list,
\* "<sleep>" or no option, gaps and a full section included.
StepValues == {<<YDOTOOL_ENTER_KEY>>, ALT_S_SEQUENCE, SleepValue, NoOption}
PlayConfigs ==
    {c \in [0..(MaxSteps - 1) -> StepValues] :
        /\ \A i \in 0..(MaxSteps - 1) : c[i] = ALT_S_SEQUENCE => i <= 1
        /\ \A i \in MaxGapIndex..(MaxSteps - 2) : (c[i] = NoOption) = (c[i + 1] = NoOption)}

\* A tick that found the focused window 1 for the last title and has slept
\* the settle delay: press_key_sequence(section) is about to start.
InitPlay ==
    /\ pc = "play"
    /\ caller = "main"
    /\ desktop \in {<<"ubuntu", "GNOME">>, <<"KDE">>}
    /\ \E c \in PlayConfigs :
        sequences = [DefaultSequences EXCEPT ![DesktopBranch(desktop)] = c]
    /\ locked = FALSE
    /\ sock = TRUE
    /\ windows = [w \in WinIds |-> IF w = 1 THEN {NumTitles} ELSE {}]
    /\ focus = 1
    /\ exitCode = -1
    /\ error = "none"
    /\ calls = 1
    /\ launches = 0
    /\ callSock = "none"
    /\ callProbe = "none"
    /\ callLaunches = 0
    /\ callPolls = 0
    /\ ti = NumTitles
    /\ found = IF DesktopBranch(desktop) = "kde" THEN <<1>> ELSE <<>>
    /\ wi = IF DesktopBranch(desktop) = "kde" THEN 1 ELSE 0
    /\ cur = 1
    /\ step = 0
    /\ events = <<>>
    /\ tickLock = "unlocked"
    /\ tickDisc = NumTitles
    /\ tickEmpty = NumTitles - 1
    /\ tickAct = 0
    /\ tickSettle = 1
    /\ tickPlays = 0
    /\ tickInj = 0
    /\ playInjFail = FALSE
    /\ actFailed = FALSE
    /\ decodeIn = None
    /\ obj = None
    /\ parses = 0

NextPlay == PlayKeys \/ PlaySleep \/ PlayEnd

SpecPlay == InitPlay /\ [][NextPlay]_vars

\* ------------------------------------------- decode_eval_json(s)
\* Lines 129-137: one evaluation of the while condition and of the body.
DecodeStep ==
    /\ pc = "decode"
    /\ IF ~isinstance_str(obj)
       THEN /\ pc' = "decoded"
            /\ UNCHANGED <<obj, parses>>
       ELSE LET nxt == json_loads(obj.body)
            IN  IF ~nxt.ok
                THEN /\ pc' = "decoded"
                     /\ UNCHANGED <<obj, parses>>
                ELSE IF nxt.val.kind = obj.kind /\ nxt.val.body = obj.body
                THEN /\ pc' = "decoded"
                     /\ UNCHANGED <<obj, parses>>
                ELSE /\ pc' = "decode"
                     /\ obj' = nxt.val
                     /\ parses' = parses + 1
    /\ UNCHANGED <<decodeIn, exitCode, error, events, playInjFail, actFailed, envVars, cfgVars,
                   ensureVars, walkVars, tickVars>>

\* Line 129: obj = s, for every argument.
InitDecode ==
    /\ pc = "decode"
    /\ decodeIn \in DecodeInputs
    /\ obj = decodeIn
    /\ parses = 0
    /\ caller = "test"
    /\ desktop = <<"ubuntu", "GNOME">>
    /\ sequences = DefaultSequences
    /\ locked = FALSE
    /\ sock = TRUE
    /\ windows = [w \in WinIds |-> {}]
    /\ focus = 0
    /\ exitCode = -1
    /\ error = "none"
    /\ calls = 0
    /\ launches = 0
    /\ callSock = "none"
    /\ callProbe = "none"
    /\ callLaunches = 0
    /\ callPolls = 0
    /\ ti = 0
    /\ found = <<>>
    /\ wi = 0
    /\ cur = 0
    /\ step = 0
    /\ events = <<>>
    /\ tickLock = "none"
    /\ tickDisc = 0
    /\ tickEmpty = 0
    /\ tickAct = 0
    /\ tickSettle = 0
    /\ tickPlays = 0
    /\ tickInj = 0
    /\ playInjFail = FALSE
    /\ actFailed = FALSE

NextDecode == DecodeStep

SpecDecode == InitDecode /\ [][NextDecode]_vars

\* ============================== claims ==============================

\* C1: no synthetic key event is sent to the injector while the session is
\* locked, whenever the environment locks it - also after the tick's lock
\* check answered "unlocked", during the settle delay or a <sleep> step.
C1_NoKeyEventWhileLocked == [][tickInj' > tickInj => ~locked]_vars

\* C2: a tick whose lock check answers "locked" makes no discovery call, no
\* activation call, no settle delay and no injector call, and is at the
\* inter-tick wait.
C2_LockedTickDoesNothing ==
    tickLock = "locked" =>
        /\ pc = "wait"
        /\ tickDisc = 0
        /\ tickAct = 0
        /\ tickSettle = 0
        /\ tickInj = 0

C2_Witness == tickLock = "locked" /\ pc = "wait" /\ windows[1] # {}

\* The events the claim expects for the key list ks.
ExpectedCombo(ks) ==
    [i \in 1..(2 * Len(ks)) |->
        IF i <= Len(ks)
        THEN KeyEvent(<<ks[i]>>, 1)
        ELSE KeyEvent(<<ks[2 * Len(ks) + 1 - i]>>, 0)]

\* C3: for every non-empty key list k1..kn of a PressCombo step, the one
\* injector invocation gets k1-down .. kn-down, then kn-up .. k1-up.
C3_PressComboOrder ==
    \A ks \in KeyLists :
        (sequences["gnome"][0] = JoinKeys(ks) /\ tickInj = 1) =>
            events = ExpectedCombo(ks)

C3_Witness ==
    /\ sequences["gnome"][0] = <<YDOTOOL_LEFT_ALT_KEY, Comma, YDOTOOL_S_KEY>>
    /\ tickInj = 1
    /\ events = <<KeyEvent(<<YDOTOOL_LEFT_ALT_KEY>>, 1), KeyEvent(<<YDOTOOL_S_KEY>>, 1),
                  KeyEvent(<<YDOTOOL_S_KEY>>, 0), KeyEvent(<<YDOTOOL_LEFT_ALT_KEY>>, 0)>>

\* C4: on GNOME, a finished unlocked tick that found a matching window
\* without focus (so that it made an activation call) made exactly one
\* activation call and exactly one play of the key sequence.
C4_GnomeOneActivationOnePlay ==
    (Section = "gnome" /\ pc = "wait" /\ tickLock = "unlocked" /\ tickAct >= 1) =>
        (tickAct = 1 /\ tickPlays = 1)

\* C5: a tick in which the discovery for every configured title reported no
\* window ends at the inter-tick wait with no activation call, no settle
\* delay, no injector call and no error.
C5_NoWindowsNoAction ==
    tickEmpty = NumTitles =>
        /\ pc = "wait"
        /\ exitCode = -1
        /\ tickAct = 0
        /\ tickSettle = 0
        /\ tickInj = 0

C5_Witness == tickEmpty = NumTitles /\ pc = "wait" /\ Section = "kde"

\* C6: with the socket absent at startup ensure_ydotoold launches the daemon
\* exactly once and then polls; it leaves the polling only with the socket
\* present (or by interrupt), and with the socket present it does leave it;
\* then the loop starts ticking, and no launch happens outside ensure_ydotoold.
C6_LaunchOnceThenPoll ==
    /\ [](/\ launches <= 1
          /\ pc = "poll" => (callSock = "absent" /\ callLaunches = 1)
          /\ (pc = "ensured" /\ callSock = "absent") => callLaunches = 1
          /\ (pc = "ensured" /\ callSock = "present") => callLaunches = 0)
    /\ [][/\ (pc = "poll" /\ ~sock) => pc' \in {"poll", "stopped"}
          /\ (pc = "poll" /\ pc' = "ensured") => sock
          /\ (pc = "ensured" /\ pc' # "ensured") => pc' \in {"lock", "stopped"}
          /\ ~InEnsure => launches' = launches]_vars
    /\ (pc = "poll" /\ sock) ~> (pc # "poll" \/ ~sock)
    /\ (pc = "ensured") ~> (pc \in {"lock", "stopped"})

C6_Witness ==
    /\ pc = "ensured"
    /\ callSock = "absent"
    /\ callPolls >= 1
    /\ launches = 1

\* C7: every call of ensure_ydotoold that finds the socket and whose probe
\* succeeds launches no daemon, waits for no socket and returns normally.
C7_EnsureIdempotent ==
    (callSock = "present" /\ callProbe = "ok") =>
        /\ pc = "ensured"
        /\ exitCode = -1
        /\ callLaunches = 0
        /\ callPolls = 0

C7_Witness ==
    /\ calls = MaxCalls
    /\ launches = 0
    /\ callSock = "present"
    /\ callProbe = "ok"
    /\ pc = "ensured"

\* The fatal setup categories.
FatalSetup ==
    {"CommandNotFound", "DaemonLaunchFailed", "SudoNotFound", "InjectorUnhealthy",
     "UnsupportedDesktop", "DesktopUnset", "EvalDisabled"}

\* C8: the process ends only on a fatal setup category or on user interrupt;
\* a failed lock check, discovery, activation or injection ends no process.
C8_OnlyFatalSetupEndsLoop ==
    pc \in Terminal => error \in FatalSetup \cup {"KeyboardInterrupt"}

\* C9: a tick whose lock check fails makes no discovery call and no injector
\* call, and the process keeps running.
C9_LockCheckFailureSkipsTick ==
    (tickLock = "error" /\ Section \in {"gnome", "kde"}) =>
        (Running /\ tickDisc = 0 /\ tickInj = 0)

\* C10: no window handle comes from the output of a failed discovery call,
\* so nothing is activated and no key event is sent for one.
C10_FailedDiscoveryFindsNothing ==
    /\ \A i \in 1..Len(found) : found[i] # ErrLine
    /\ cur # ErrLine

\* C11: a process ended by a fatal setup error (missing binary, failed daemon
\* launch, unset or unsupported desktop, eval mode disabled, failing probe
\* of an existing socket) has exit code 1 and sends no key event afterwards;
\* exit code 0 comes from the caught interrupt only.
C11_FatalSetupExitsOne ==
    /\ [](error \in FatalSetup => (pc \in {"exited", "crashed"} /\ exitCode = 1))
    /\ [](exitCode = 0 => (pc = "stopped" /\ error = "KeyboardInterrupt"))
    /\ [][(error \in FatalSetup) =>
              /\ tickInj' = tickInj
              /\ events' = events]_vars

C11_Witness ==
    /\ pc = "exited"
    /\ error = "CommandNotFound"
    /\ exitCode = 1
    /\ tickSettle = 1
    /\ tickInj = 0

\* C12: at every point of the running program (socket polling, lock check,
\* discovery, settle delay, key sequence, inter-tick wait) a user interrupt
\* can be delivered and takes the process to the stopped state with exit
\* code 0; a stopped process makes no lock check, discovery, activation or
\* injection.
C12_InterruptStopsCleanly ==
    /\ []((Running /\ caller = "main") => ENABLED Interrupt)
    /\ [][Interrupt => (pc' = "stopped" /\ exitCode' = 0)]_vars
    /\ [][pc = "stopped" => UNCHANGED <<pc, exitCode, events, tickVars>>]_vars

C12_Witness ==
    /\ pc = "stopped"
    /\ exitCode = 0
    /\ callPolls >= 1
    /\ ~sock

\* C13: decode_eval_json ends on every argument, each json.loads that
\* replaces obj leaving a shorter string or no string; a number, list or
\* object wrapped as JSON text MaxDepth levels deep (or fewer) comes back as
\* that value; a string json.loads rejects comes back unchanged with no
\* successful parse; a non-string comes back unchanged; what is returned is
\* not a string json.loads would turn into something else.
C13_DecodeFixedPoint ==
    /\ [][(pc = "decode" /\ pc' = "decode") =>
              /\ obj.kind = "str"
              /\ obj'.kind = "str" => Len(obj'.body) < Len(obj.body)]_vars
    /\ [](pc = "decoded" =>
            /\ \A v \in Structurals, d \in 0..MaxDepth :
                  (decodeIn.kind = Wrap(v, d).kind /\ decodeIn.body = Wrap(v, d).body) =>
                      (obj.kind = v.kind /\ obj.body = v.body /\ parses = d)
            /\ (decodeIn.kind = "str" /\ ~json_loads(decodeIn.body).ok) =>
                  (obj.kind = "str" /\ obj.body = decodeIn.body /\ parses = 0)
            /\ decodeIn.kind # "str" =>
                  (obj.kind = decodeIn.kind /\ obj.body = decodeIn.body /\ parses = 0)
            /\ obj.kind = "str" => ~json_loads(obj.body).ok)

C13_Witness ==
    /\ pc = "decoded"
    /\ decodeIn.kind = "str"
    /\ decodeIn.body = Wrap(List(<<"[", Quote, "a", Quote, "]">>), MaxDepth).body
    /\ obj.kind = "list"
    /\ parses = MaxDepth

\* C14: for every session signal the lock dispatch and the backend dispatch
\* choose the same variant, GNOME when the value contains "GNOME", else KDE
\* when it contains "KDE"; a value with neither (also the empty one) makes
\* no lock query, no discovery call and no key event, and the tick loop
\* ends on it with the unsupported/unset error.
C14_SameVariantOrRejected ==
    /\ is_desktop_locked(desktop) = "is_gnome_screen_locked" <=> Contains(desktop, "GNOME")
    /\ accept_dialogs(desktop) = "gcheck" <=> Contains(desktop, "GNOME")
    /\ is_desktop_locked(desktop) = "is_kde_screen_locked"
          <=> (~Contains(desktop, "GNOME") /\ Contains(desktop, "KDE"))
    /\ accept_dialogs(desktop) = "ksearch"
          <=> (~Contains(desktop, "GNOME") /\ Contains(desktop, "KDE"))
    /\ (~Contains(desktop, "GNOME") /\ ~Contains(desktop, "KDE")) =>
          /\ tickLock \in {"none", "error"}
          /\ error # "LockCheckFailed"
          /\ tickDisc = 0
          /\ tickInj = 0
          /\ events = <<>>
          /\ pc \in {"ensure", "probe", "launch", "poll", "ensured", "lock",
                     "exited", "crashed", "stopped"}
          /\ tickLock = "error" =>
                /\ pc = "crashed"
                /\ error = (IF desktop = <<>> THEN "DesktopUnset" ELSE "UnsupportedDesktop")

C14_Witness ==
    /\ desktop = <<"gnome">>
    /\ pc = "crashed"
    /\ tickLock = "error"
    /\ error = "UnsupportedDesktop"

\* C15: with an unset or unsupported session signal ensure_ydotoold is
\* never called (no socket check, no probe, no daemon launch, no polling);
\* and no lock check happens before ensure_ydotoold has returned.
C15_DesktopResolvedBeforeEnsure ==
    /\ Section \notin {"gnome", "kde"} =>
          /\ calls = 0
          /\ launches = 0
          /\ callProbe = "none"
          /\ callPolls = 0
    /\ tickLock # "none" => (calls = 1 /\ ~InEnsure /\ pc # "ensured")

\* C16: on GNOME one tick makes at most one activation call and plays the
\* key sequence at most once, whatever windows are open and whichever
\* configured titles they contain.
C16_GnomeFirstMatchOnly ==
    Section = "gnome" => (tickAct <= 1 /\ tickPlays <= 1)

\* C17: a "ydotool key" invocation that exits non-zero ends no process:
\* the play goes on with its next step and is completed, the loop goes on
\* with the next window or title or the inter-tick wait, only a missing
\* binary ends the process during that play, and the next tick starts with
\* nothing kept, like every tick, so a dialog still open is handled again.
C17_InjectorFailureNotFatal ==
    /\ [][(~playInjFail /\ playInjFail') =>
              /\ pc = "play"
              /\ pc' = "play"
              /\ exitCode' = -1
              /\ step' = step + 1
              /\ tickInj' = tickInj + 1]_vars
    /\ []((playInjFail /\ pc \in Terminal) => error = "CommandNotFound")
    /\ [][(playInjFail /\ ~playInjFail') =>
              \/ pc' = "stopped"
              \/ /\ tickPlays' = tickPlays + 1
                 /\ pc' \in {"gdisc", "ksearch", "kfocus", "wait"}
                 /\ exitCode' = -1]_vars
    /\ [][(pc = "wait" /\ pc' # "wait") =>
              /\ pc' \in {"lock", "stopped"}
              /\ walkVars' = <<0, <<>>, 0, 0, 0>>
              /\ tickPlays' = 0
              /\ tickInj' = 0]_vars

C17_Witness ==
    /\ playInjFail
    /\ pc = "play"
    /\ SequenceEnds(Section, step)
    /\ tickInj = 2
    /\ exitCode = -1
    /\ windows[1] # {}
    /\ ~locked

\* C18: on KDE no open window is acted upon twice in one tick, also when its
\* title contains more than one configured title: the search for a title
\* hands over no window that the tick has acted on for the title before.
C18_KdeEachWindowOnce ==
    [][(Section = "kde" /\ pc = "ksearch" /\ pc' = "kfocus") =>
           \A i \in 1..Len(found'), j \in 1..Len(found) :
               found'[i] \in WinIds => found'[i] # found[j]]_vars

\* C19: every injector invocation comes after a discovery call and a
\* completed settle delay of the same tick, and never for an open window
\* whose activation call failed.
C19_SettleAndFocusBeforeKeys ==
    [][tickInj' > tickInj =>
           /\ tickDisc >= 1
           /\ tickSettle = tickPlays + 1
           /\ cur \in WinIds => ~actFailed]_vars

\* The first index of the section without an option, MaxSteps when all have one.
RECURSIVE FirstGap(_, _)
FirstGap(c, i) == IF i >= MaxSteps \/ c[i] = NoOption THEN i ELSE FirstGap(c, i + 1)

\* C20: one play handles the steps accept_sequence_0, 1, 2, ... in this
\* order, each once: a "<sleep>" step makes no injector call, any other
\* step makes one with the keys of that step; the play ends at the first
\* index without an option (nothing behind a gap is played) or after
\* MaxSteps steps.
C20_PlayInIndexOrder ==
    /\ [](pc = "play" =>
            /\ step <= FirstGap(sequences[Section], 0)
            /\ tickInj = Cardinality({j \in 0..(step - 1) : sequences[Section][j] # SleepValue}))
    /\ [][(pc = "play" /\ pc' = "play" /\ step' # step) =>
              /\ step' = step + 1
              /\ step < FirstGap(sequences[Section], 0)
              /\ IF sequences[Section][step] = SleepValue
                 THEN tickInj' = tickInj /\ events' = events
                 ELSE /\ tickInj' = tickInj + 1
                      /\ events' = press_keys(Split(sequences[Section][step]))]_vars
    /\ [][tickPlays' > tickPlays =>
              /\ step = FirstGap(sequences[Section], 0)
              /\ step <= MaxSteps
              /\ tickInj' = tickInj]_vars

C20_Witness ==
    /\ pc = "wait"
    /\ tickPlays = 1
    /\ tickInj = 2
    /\ sequences["kde"][0] = SleepValue
    /\ sequences["kde"][1] = ALT_S_SEQUENCE
    /\ sequences["kde"][2] = <<YDOTOOL_ENTER_KEY>>
    /\ sequences["kde"][3] = NoOption
    /\ sequences["kde"][4] = <<YDOTOOL_ENTER_KEY>>
    /\ events = press_keys(<<<<YDOTOOL_ENTER_KEY>>>>)

====
